---------------------------- MODULE Spec2Model ----------------------------
(***************************************************************************)
(* The "summarize current tab" command: the request pipeline of            *)
(* src/src/summarizeCurrentTab.tsx (the cancellable variant) and of        *)
(* src/unnamed/part_001 (the earlier variant without cancellation).        *)
(*                                                                         *)
(* One run = one call of init().  A run suspends at each await (tab        *)
(* listing, metadata fetch, transcript fetch, summarization request); the  *)
(* code between two awaits runs to completion on the event loop, so each   *)
(* action below is one such continuation.                                  *)
(***************************************************************************)
EXTENDS Integers, Sequences, FiniteSets, Bags, TLC

\* ------------------------------------------------------------------ bounds
MaxRuns == 2
MaxFollowUps == 2
MaxTabs == 2

\* ------------------------------------------------------------------ values
\* A React state cell holds a value together with the run that produced it
\* (run 0: no run, the cell is undefined).
Undefined == [run |-> 0, val |-> "undefined"]

Val(r, v) == [run |-> r, val |-> v]

Titles == {"Talk"}

TranscriptTexts == {"hello world transcript"}

\* what getVideoTranscript may resolve to: a text, or the empty (falsy) string
TranscriptResults == TranscriptTexts \cup {""}

SummaryTexts == {"Summary: talk about X.", "Summary: talk about Y."}

AnswerTexts == {"Answer."}

Questions == {"undefined", "What is X?"}

\* URLs are sequences of segments, so that startsWith is a prefix test.
WatchPrefix == <<"https://www.youtube.com/", "watch?v=">>

WatchURL == <<"https://www.youtube.com/", "watch?v=", "abc123def45">>

WatchBadIdURL == <<"https://www.youtube.com/", "watch?v=", "abc">>

ShortsURL == <<"https://www.youtube.com/", "shorts/abc123def45">>

OtherURL == <<"https://example.com/">>

URLs == {WatchURL, WatchBadIdURL, ShortsURL, OtherURL}

NoVideo == <<>>

Tab == [url : URLs, active : BOOLEAN]

TabLists == UNION {[1..n -> Tab] : n \in 0..MaxTabs}

T(url, active) == [url |-> url, active |-> active]

\* The tab lists the host answers with in the pipeline specification: one or
\* more for every way the resolve stage can end.
TabInputs ==
    {<<>>,
     <<T(WatchURL, FALSE)>>,
     <<T(WatchURL, TRUE)>>,
     <<T(WatchBadIdURL, TRUE)>>,
     <<T(OtherURL, TRUE)>>,
     <<T(OtherURL, FALSE), T(WatchURL, TRUE)>>,
     <<T(ShortsURL, TRUE), T(WatchURL, TRUE)>>}

\* toast messages
NoToast == "none"

ToastExtensionRequired == "Raycast browser extension is required"

ToastOpenYouTube == "Please open a YouTube video in the active browser tab"

ToastInvalidURL == "Invalid URL/ID"

ToastVideoData == "Error fetching video data"

ToastNoSubtitles == "Failed to get video subtitles"

ToastTranscript == "Error fetching video transcript"

ToastUnexpected == "Unexpected error"

\* ------------------------------------------------------------------- state
VARIABLES
    variant,            \* which command file runs: "main" or "part_001"
    summary,            \* useState: summary
    summaryIsLoading,   \* useState: summaryIsLoading
    transcript,         \* useState: transcript
    videoData,          \* useState: videoData
    activeRequestRef,   \* useRef: the current run's controller (0 = null)
    aborted,            \* aborted[r]: signal.aborted of run r's AbortController
    runs,               \* runs[r]: position, video, calls and toast of run r
    summaryEffectDep,   \* part_001: the transcript the summary effect last saw
    followUps,          \* follow-up requests in flight (a bag)
    asked,              \* number of follow-up requests dispatched so far
    followUpError       \* a follow-up failure has been surfaced

vars == <<variant, summary, summaryIsLoading, transcript, videoData,
          activeRequestRef, aborted, runs, summaryEffectDep, followUps, asked,
          followUpError>>

pipelineState == <<summary, summaryIsLoading, transcript, videoData>>

followUpState == <<followUps, asked, followUpError>>

RunIds == 1..Len(runs)

Pending == BagToSet(followUps)

\* ------------------------------------------------------- pure helper steps
StartsWith(url, prefix) ==
    /\ Len(url) >= Len(prefix)
    /\ SubSeq(url, 1, Len(prefix)) = prefix


\* FindActive picking the last active tab instead of the first.
FindActive_Last(tabs) ==
    IF \E i \in 1..Len(tabs) : tabs[i].active
    THEN CHOOSE i \in 1..Len(tabs) :
            /\ tabs[i].active
            /\ \A j \in (i + 1)..Len(tabs) : ~tabs[j].active
    ELSE 0

\* tabs.find((tab) => tab.active): the first active tab, 0 when there is none
FindActive(tabs) ==
    IF \E i \in 1..Len(tabs) : tabs[i].active
    THEN CHOOSE i \in 1..Len(tabs) :
            /\ tabs[i].active
            /\ \A j \in 1..(i - 1) : ~tabs[j].active
    ELSE 0

\* ytdl.validateURL / ytdl.validateID on the tab's url
ValidateURL(video) == video = WatchURL

ValidateID(video) == FALSE

\* Resolve with the startsWith test dropped.
Resolve_PrefixUnchecked(tabs) ==
    LET i == FindActive(tabs) IN
    IF i = 0
    THEN [toast |-> ToastOpenYouTube, video |-> NoVideo]
    ELSE IF ~ValidateURL(tabs[i].url) /\ ~ValidateID(tabs[i].url)
         THEN [toast |-> ToastInvalidURL, video |-> NoVideo]
         ELSE [toast |-> NoToast, video |-> tabs[i].url]

\* The outcome of the resolve stage on a tab list: the toast it shows
\* (NoToast when the video is accepted) and the video it resolves to.
Resolve(tabs) ==
    LET i == FindActive(tabs) IN
    IF i = 0 \/ ~StartsWith(tabs[i].url, WatchPrefix)
    THEN [toast |-> ToastOpenYouTube, video |-> NoVideo]
    ELSE IF ~ValidateURL(tabs[i].url) /\ ~ValidateID(tabs[i].url)
         THEN [toast |-> ToastInvalidURL, video |-> NoVideo]
         ELSE [toast |-> NoToast, video |-> tabs[i].url]

\* signal.aborted of run r (part_001 has no controller: never aborted)
IsAborted(r) == variant = "main" /\ aborted[r]

\* AbortPrevious with the abort() call dropped.
AbortPrevious_Skipped(ab, ref) == ab

\* if (activeRequestRef.current) activeRequestRef.current.abort()
AbortPrevious(ab, ref) ==
    IF ref # 0 THEN [ab EXCEPT ![ref] = TRUE] ELSE ab

\* resetStates with setVideoData(undefined) dropped.
resetStates_KeepsVideoData ==
    [summary |-> Undefined, transcript |-> Undefined, videoData |-> videoData,
     summaryIsLoading |-> FALSE]

\* resetStates()
resetStates ==
    [summary |-> Undefined, transcript |-> Undefined, videoData |-> Undefined,
     summaryIsLoading |-> FALSE]

NewRun(pc, calls, toast) ==
    [pc |-> pc, video |-> NoVideo, calls |-> calls, toast |-> toast]

Call(run, name) == [run EXCEPT !.calls = Append(@, name)]

\* ------------------------------------------------------------------- Init
Init ==
    /\ variant \in {"main", "part_001"}
    /\ summary = Undefined
    /\ summaryIsLoading = (variant = "part_001")
    /\ transcript = Undefined
    /\ videoData = Undefined
    /\ activeRequestRef = 0
    /\ aborted = <<>>
    /\ runs = <<>>
    /\ summaryEffectDep = Undefined
    /\ followUps = EmptyBag
    /\ asked = 0
    /\ followUpError = FALSE

\* ------------------------------------------ summarizeCurrentTab.tsx: init

\* Activate with the return after the capability toast dropped: the run goes
\* on to list the tabs.
Activate_NoReturn(canAccess) ==
    /\ variant = "main"
    /\ Len(runs) < MaxRuns
    /\ aborted' = Append(AbortPrevious(aborted, activeRequestRef), FALSE)
    /\ activeRequestRef' = Len(runs) + 1
    /\ summary' = Undefined
    /\ transcript' = Undefined
    /\ videoData' = Undefined
    /\ summaryIsLoading' = canAccess
    /\ runs' = Append(runs,
            NewRun("Resolving", <<"getTabs">>,
                   IF canAccess THEN NoToast ELSE ToastExtensionRequired))
    /\ UNCHANGED <<variant, summaryEffectDep, followUps, asked, followUpError>>

\* init() up to its first await.  init is written to be entered while an
\* earlier run is still in flight (it aborts activeRequestRef.current when
\* there is one), so an activation may follow another with or without a
\* Teardown between them.  The controller made here cannot be aborted before
\* the check that precedes getTabs, so that check always passes.
Activate(canAccess) ==
    /\ variant = "main"
    /\ Len(runs) < MaxRuns
    /\ LET r == Len(runs) + 1
           s == resetStates
       IN
       /\ aborted' = Append(AbortPrevious(aborted, activeRequestRef), FALSE)
       /\ activeRequestRef' = r
       /\ summary' = s.summary
       /\ transcript' = s.transcript
       /\ videoData' = s.videoData
       /\ IF ~canAccess
          THEN /\ summaryIsLoading' = FALSE
               /\ runs' = Append(runs, NewRun("Failed", <<>>, ToastExtensionRequired))
          ELSE /\ summaryIsLoading' = TRUE
               /\ runs' = Append(runs, NewRun("Resolving", <<"getTabs">>, NoToast))
    /\ UNCHANGED <<variant, summaryEffectDep, followUpState>>

\* useGetSummary({transcript, setSummaryIsLoading, setSummary}): it is handed
\* the two setters and no abort signal.  Reports "now loading" when called,
\* "now complete" with the summary text, or "now failed".
useGetSummaryStart == summaryIsLoading' = TRUE

useGetSummaryResolve(r, text) ==
    /\ summary' = Val(r, text)
    /\ summaryIsLoading' = FALSE

useGetSummaryReject == summaryIsLoading' = FALSE

\* BrowserExtension.getTabs() resolved with tabs: find, validate, and start
\* the metadata fetch.
TabsReturn(r, tabs) ==
    /\ variant = "main"
    /\ r \in RunIds
    /\ runs[r].pc = "Resolving"
    /\ LET res == Resolve(tabs) IN
       IF res.toast # NoToast
       THEN /\ runs' = [runs EXCEPT ![r].pc = "Failed", ![r].toast = res.toast]
            /\ summaryIsLoading' = FALSE
       ELSE IF IsAborted(r)
            THEN /\ runs' = [runs EXCEPT ![r].pc = "Dropped", ![r].video = res.video]
                 /\ UNCHANGED summaryIsLoading
            ELSE /\ runs' = [runs EXCEPT ![r] =
                        Call([@ EXCEPT !.pc = "FetchingMetadata",
                                       !.video = res.video], "getVideoData")]
                 /\ UNCHANGED summaryIsLoading
    /\ UNCHANGED <<variant, summary, transcript, videoData, activeRequestRef,
                   aborted, summaryEffectDep, followUpState>>

\* BrowserExtension.getTabs() rejected: the outer catch.
TabsFail(r) ==
    /\ variant = "main"
    /\ r \in RunIds
    /\ runs[r].pc = "Resolving"
    /\ IF ~IsAborted(r)
       THEN /\ runs' = [runs EXCEPT ![r].pc = "Failed", ![r].toast = ToastUnexpected]
            /\ summaryIsLoading' = FALSE
       ELSE /\ runs' = [runs EXCEPT ![r].pc = "Dropped"]
            /\ UNCHANGED summaryIsLoading
    /\ UNCHANGED <<variant, summary, transcript, videoData, activeRequestRef,
                   aborted, summaryEffectDep, followUpState>>



\* MetaReturn with the abort check before getVideoTranscript dropped.
MetaReturn_NoAbortCheck(r, title) ==
    /\ variant = "main"
    /\ r \in 1..Len(runs)
    /\ runs[r].pc = "FetchingMetadata"
    /\ videoData' = Val(r, title)
    /\ runs' = [runs EXCEPT ![r] =
                   [@ EXCEPT !.pc = "FetchingTranscript",
                             !.calls = Append(@, "getVideoTranscript")]]
    /\ UNCHANGED <<variant, summary, summaryIsLoading, transcript,
                   activeRequestRef, aborted, summaryEffectDep, followUps,
                   asked, followUpError>>

\* MetaReturn with setVideoData(data) dropped.
MetaReturn_StoresNothing(r, title) ==
    /\ variant = "main"
    /\ r \in 1..Len(runs)
    /\ runs[r].pc = "FetchingMetadata"
    /\ IF variant = "main" /\ aborted[r]
       THEN runs' = [runs EXCEPT ![r].pc = "Dropped"]
       ELSE runs' = [runs EXCEPT ![r] =
                        [@ EXCEPT !.pc = "FetchingTranscript",
                                  !.calls = Append(@, "getVideoTranscript")]]
    /\ UNCHANGED <<variant, summary, summaryIsLoading, transcript, videoData,
                   activeRequestRef, aborted, summaryEffectDep, followUps,
                   asked, followUpError>>

\* getVideoData(video) resolved with data: store it, then start the
\* transcript fetch.
MetaReturn(r, title) ==
    /\ variant = "main"
    /\ r \in RunIds
    /\ runs[r].pc = "FetchingMetadata"
    /\ videoData' = Val(r, title)
    /\ IF IsAborted(r)
       THEN runs' = [runs EXCEPT ![r].pc = "Dropped"]
       ELSE runs' = [runs EXCEPT ![r] =
                        Call([@ EXCEPT !.pc = "FetchingTranscript"],
                             "getVideoTranscript")]
    /\ UNCHANGED <<variant, summary, summaryIsLoading, transcript,
                   activeRequestRef, aborted, summaryEffectDep, followUpState>>

\* MetaFail with the catch's return dropped: the run goes on to the
\* transcript fetch.
MetaFail_NoReturn(r) ==
    /\ variant = "main"
    /\ r \in 1..Len(runs)
    /\ runs[r].pc = "FetchingMetadata"
    /\ summaryIsLoading' = FALSE
    /\ runs' = [runs EXCEPT ![r] =
                   [@ EXCEPT !.pc = "FetchingTranscript",
                             !.toast = ToastVideoData,
                             !.calls = Append(@, "getVideoTranscript")]]
    /\ UNCHANGED <<variant, summary, transcript, videoData, activeRequestRef,
                   aborted, summaryEffectDep, followUps, asked, followUpError>>

\* getVideoData(video) rejected: the inner catch of the metadata stage.
MetaFail(r) ==
    /\ variant = "main"
    /\ r \in RunIds
    /\ runs[r].pc = "FetchingMetadata"
    /\ runs' = [runs EXCEPT ![r].pc = "Failed", ![r].toast = ToastVideoData]
    /\ summaryIsLoading' = FALSE
    /\ UNCHANGED <<variant, summary, transcript, videoData, activeRequestRef,
                   aborted, summaryEffectDep, followUpState>>


\* TransReturn with setSummaryIsLoading(false) dropped from the empty-result
\* branch.
TransReturn_EmptyKeepsLoading(r, text) ==
    /\ variant = "main"
    /\ r \in 1..Len(runs)
    /\ runs[r].pc = "FetchingTranscript"
    /\ IF text = ""
       THEN /\ runs' = [runs EXCEPT ![r].pc = "Empty", ![r].toast = ToastNoSubtitles]
            /\ UNCHANGED <<transcript, summaryIsLoading>>
       ELSE /\ transcript' = Val(r, text)
            /\ IF variant = "main" /\ aborted[r]
               THEN /\ runs' = [runs EXCEPT ![r].pc = "Dropped"]
                    /\ UNCHANGED summaryIsLoading
               ELSE /\ runs' = [runs EXCEPT ![r] =
                            [@ EXCEPT !.pc = "Summarizing",
                                      !.calls = Append(@, "useGetSummary")]]
                    /\ summaryIsLoading' = TRUE
    /\ UNCHANGED <<variant, summary, videoData, activeRequestRef, aborted,
                   summaryEffectDep, followUps, asked, followUpError>>

\* getVideoTranscript(video) resolved with text: the empty-result branch, or
\* store the transcript and call useGetSummary.
TransReturn(r, text) ==
    /\ variant = "main"
    /\ r \in RunIds
    /\ runs[r].pc = "FetchingTranscript"
    /\ IF text = ""
       THEN /\ runs' = [runs EXCEPT ![r].pc = "Empty", ![r].toast = ToastNoSubtitles]
            /\ summaryIsLoading' = FALSE
            /\ UNCHANGED transcript
       ELSE /\ transcript' = Val(r, text)
            /\ IF IsAborted(r)
               THEN /\ runs' = [runs EXCEPT ![r].pc = "Dropped"]
                    /\ UNCHANGED summaryIsLoading
               ELSE /\ runs' = [runs EXCEPT ![r] =
                            Call([@ EXCEPT !.pc = "Summarizing"], "useGetSummary")]
                    /\ useGetSummaryStart
    /\ UNCHANGED <<variant, summary, videoData, activeRequestRef, aborted,
                   summaryEffectDep, followUpState>>

\* getVideoTranscript(video) rejected: the catch of the transcript stage.
TransFail(r) ==
    /\ variant = "main"
    /\ r \in RunIds
    /\ runs[r].pc = "FetchingTranscript"
    /\ IF ~IsAborted(r)
       THEN /\ runs' = [runs EXCEPT ![r].pc = "Failed", ![r].toast = ToastTranscript]
            /\ summaryIsLoading' = FALSE
       ELSE /\ runs' = [runs EXCEPT ![r].pc = "Dropped"]
            /\ UNCHANGED summaryIsLoading
    /\ UNCHANGED <<variant, summary, transcript, videoData, activeRequestRef,
                   aborted, summaryEffectDep, followUpState>>

\* await useGetSummary(...) resolved: nothing follows it in init.
SummaryReturn(r, text) ==
    /\ variant = "main"
    /\ r \in RunIds
    /\ runs[r].pc = "Summarizing"
    /\ useGetSummaryResolve(r, text)
    /\ runs' = [runs EXCEPT ![r].pc = "Ready"]
    /\ UNCHANGED <<variant, transcript, videoData, activeRequestRef, aborted,
                   summaryEffectDep, followUpState>>

\* await useGetSummary(...) rejected: the same catch as the transcript fetch.
SummaryFail(r) ==
    /\ variant = "main"
    /\ r \in RunIds
    /\ runs[r].pc = "Summarizing"
    /\ useGetSummaryReject
    /\ IF ~IsAborted(r)
       THEN runs' = [runs EXCEPT ![r].pc = "Failed", ![r].toast = ToastTranscript]
       ELSE runs' = [runs EXCEPT ![r].pc = "Dropped"]
    /\ UNCHANGED <<variant, summary, transcript, videoData, activeRequestRef,
                   aborted, summaryEffectDep, followUpState>>

\* The effect's cleanup function.
Teardown ==
    /\ variant = "main"
    /\ Len(runs) > 0
    /\ aborted' = AbortPrevious(aborted, activeRequestRef)
    /\ activeRequestRef' = 0
    /\ UNCHANGED <<variant, pipelineState, runs, summaryEffectDep, followUpState>>

\* ------------------------------------------------- unnamed/part_001: init
\* The effect has no dependencies and no cleanup: init() runs once per mount,
\* on the initial state (summaryIsLoading starts true).
V_Activate(canAccess) ==
    /\ variant = "part_001"
    /\ Len(runs) = 0
    /\ IF ~canAccess
       THEN /\ summaryIsLoading' = FALSE
            /\ runs' = Append(runs, NewRun("Failed", <<>>, ToastExtensionRequired))
       ELSE /\ UNCHANGED summaryIsLoading
            /\ runs' = Append(runs, NewRun("Resolving", <<"getTabs">>, NoToast))
    /\ UNCHANGED <<variant, summary, transcript, videoData, activeRequestRef,
                   aborted, summaryEffectDep, followUpState>>

V_TabsReturn(r, tabs) ==
    /\ variant = "part_001"
    /\ r \in RunIds
    /\ runs[r].pc = "Resolving"
    /\ LET res == Resolve(tabs) IN
       IF res.toast # NoToast
       THEN /\ runs' = [runs EXCEPT ![r].pc = "Failed", ![r].toast = res.toast]
            /\ summaryIsLoading' = FALSE
       ELSE /\ runs' = [runs EXCEPT ![r] =
                   Call([@ EXCEPT !.pc = "FetchingMetadata",
                                  !.video = res.video], "getVideoData")]
            /\ UNCHANGED summaryIsLoading
    /\ UNCHANGED <<variant, summary, transcript, videoData, activeRequestRef,
                   aborted, summaryEffectDep, followUpState>>

V_TabsFail(r) ==
    /\ variant = "part_001"
    /\ r \in RunIds
    /\ runs[r].pc = "Resolving"
    /\ runs' = [runs EXCEPT ![r].pc = "Failed", ![r].toast = ToastUnexpected]
    /\ summaryIsLoading' = FALSE
    /\ UNCHANGED <<variant, summary, transcript, videoData, activeRequestRef,
                   aborted, summaryEffectDep, followUpState>>

V_MetaReturn(r, title) ==
    /\ variant = "part_001"
    /\ r \in RunIds
    /\ runs[r].pc = "FetchingMetadata"
    /\ videoData' = Val(r, title)
    /\ runs' = [runs EXCEPT ![r] =
                   Call([@ EXCEPT !.pc = "FetchingTranscript"], "getVideoTranscript")]
    /\ UNCHANGED <<variant, summary, summaryIsLoading, transcript,
                   activeRequestRef, aborted, summaryEffectDep, followUpState>>


\* V_MetaFail with setSummaryIsLoading(false) dropped.
V_MetaFail_KeepsLoading(r) ==
    /\ variant = "part_001"
    /\ r \in 1..Len(runs)
    /\ runs[r].pc = "FetchingMetadata"
    /\ runs' = [runs EXCEPT ![r].pc = "Failed", ![r].toast = ToastVideoData]
    /\ UNCHANGED <<variant, summary, summaryIsLoading, transcript, videoData,
                   activeRequestRef, aborted, summaryEffectDep, followUps,
                   asked, followUpError>>

V_MetaFail(r) ==
    /\ variant = "part_001"
    /\ r \in RunIds
    /\ runs[r].pc = "FetchingMetadata"
    /\ runs' = [runs EXCEPT ![r].pc = "Failed", ![r].toast = ToastVideoData]
    /\ summaryIsLoading' = FALSE
    /\ UNCHANGED <<variant, summary, transcript, videoData, activeRequestRef,
                   aborted, summaryEffectDep, followUpState>>

\* init ends after setTranscript; the summary effect takes over.
V_TransReturn(r, text) ==
    /\ variant = "part_001"
    /\ r \in RunIds
    /\ runs[r].pc = "FetchingTranscript"
    /\ IF text = ""
       THEN /\ runs' = [runs EXCEPT ![r].pc = "Empty", ![r].toast = ToastNoSubtitles]
            /\ summaryIsLoading' = FALSE
            /\ UNCHANGED transcript
       ELSE /\ transcript' = Val(r, text)
            /\ runs' = [runs EXCEPT ![r].pc = "TranscriptStored"]
            /\ UNCHANGED summaryIsLoading
    /\ UNCHANGED <<variant, summary, videoData, activeRequestRef, aborted,
                   summaryEffectDep, followUpState>>

V_TransFail(r) ==
    /\ variant = "part_001"
    /\ r \in RunIds
    /\ runs[r].pc = "FetchingTranscript"
    /\ runs' = [runs EXCEPT ![r].pc = "Failed", ![r].toast = ToastTranscript]
    /\ summaryIsLoading' = FALSE
    /\ UNCHANGED <<variant, summary, transcript, videoData, activeRequestRef,
                   aborted, summaryEffectDep, followUpState>>

\* useEffect(..., [transcript]): runs after a render in which transcript
\* changed, and calls useGetSummary without awaiting it.
V_SummaryEffect ==
    /\ variant = "part_001"
    /\ summaryEffectDep # transcript
    /\ summaryEffectDep' = transcript
    /\ IF transcript = Undefined
       THEN UNCHANGED <<runs, summaryIsLoading>>
       ELSE /\ runs' = [runs EXCEPT ![transcript.run] =
                   Call([@ EXCEPT !.pc = "Summarizing"], "useGetSummary")]
            /\ useGetSummaryStart
    /\ UNCHANGED <<variant, summary, transcript, videoData, activeRequestRef,
                   aborted, followUpState>>

V_SummaryReturn(r, text) ==
    /\ variant = "part_001"
    /\ r \in RunIds
    /\ runs[r].pc = "Summarizing"
    /\ useGetSummaryResolve(r, text)
    /\ runs' = [runs EXCEPT ![r].pc = "Ready"]
    /\ UNCHANGED <<variant, transcript, videoData, activeRequestRef, aborted,
                   summaryEffectDep, followUpState>>

\* The effect neither awaits nor catches: the rejection reaches the host.
V_SummaryFail(r) ==
    /\ variant = "part_001"
    /\ r \in RunIds
    /\ runs[r].pc = "Summarizing"
    /\ useGetSummaryReject
    /\ runs' = [runs EXCEPT ![r].pc = "Uncaught"]
    /\ UNCHANGED <<variant, summary, transcript, videoData, activeRequestRef,
                   aborted, summaryEffectDep, followUpState>>

\* ----------------------------------------------------- follow-up questions
\* useFollowUpQuestion(question, transcript, setSummary, pop): one backend
\* request over the transcript it is handed; its answer replaces the
\* displayed summary, its failure leaves the summary and is surfaced apart.
useFollowUpQuestion(question, t) ==
    /\ followUps' = followUps (+)
            SetToBag({[question |-> question, transcript |-> t]})
    /\ asked' = asked + 1
    /\ UNCHANGED followUpError

\* AskQuestion fetching the transcript again before it dispatches.
AskQuestion_Refetches(question) ==
    /\ videoData # Undefined
    /\ summaryEffectDep = transcript \/ variant = "main"
    /\ asked < MaxFollowUps
    /\ IF question = "undefined" \/ transcript = Undefined
       THEN UNCHANGED <<followUps, asked, followUpError, runs>>
       ELSE /\ useFollowUpQuestion(question, transcript)
            /\ runs' = [runs EXCEPT ![transcript.run].calls =
                           Append(@, "getVideoTranscript")]
    /\ UNCHANGED <<variant, summary, summaryIsLoading, transcript, videoData,
                   activeRequestRef, aborted, summaryEffectDep>>

\* AskQuestion raising the loading flag while the question is in flight.
AskQuestion_SetsLoading(question) ==
    /\ videoData # Undefined
    /\ summaryEffectDep = transcript \/ variant = "main"
    /\ asked < MaxFollowUps
    /\ IF question = "undefined" \/ transcript = Undefined
       THEN UNCHANGED <<followUps, asked, followUpError, summaryIsLoading>>
       ELSE /\ useFollowUpQuestion(question, transcript)
            /\ summaryIsLoading' = TRUE
    /\ UNCHANGED <<variant, summary, transcript, videoData, activeRequestRef,
                   aborted, runs, summaryEffectDep>>


\* The summary text a follow-up request carries to the backend: askQuestion
\* passes the question, the transcript, setSummary and pop, and no summary.
RequestSummary(f) == Undefined

\* The form is reachable only once the Detail view renders (videoData set);
\* React flushes pending effects before it handles the submit.
AskQuestion(question) ==
    /\ videoData # Undefined
    /\ summaryEffectDep = transcript \/ variant = "main"
    /\ asked < MaxFollowUps
    /\ IF question = "undefined" \/ transcript = Undefined
       THEN UNCHANGED followUpState
       ELSE useFollowUpQuestion(question, transcript)
    /\ UNCHANGED <<variant, pipelineState, activeRequestRef, aborted, runs,
                   summaryEffectDep>>

FollowUpAnswer(f, text) ==
    /\ f \in Pending
    /\ summary' = Val(f.transcript.run, text)
    /\ followUps' = followUps (-) SetToBag({f})
    /\ UNCHANGED <<variant, summaryIsLoading, transcript, videoData,
                   activeRequestRef, aborted, runs, summaryEffectDep, asked,
                   followUpError>>

FollowUpFail(f) ==
    /\ f \in Pending
    /\ followUpError' = TRUE
    /\ followUps' = followUps (-) SetToBag({f})
    /\ UNCHANGED <<variant, pipelineState, activeRequestRef, aborted, runs,
                   summaryEffectDep, asked>>

Next ==
    \/ \E canAccess \in BOOLEAN : Activate(canAccess)
    \/ \E r \in RunIds, tabs \in TabInputs : TabsReturn(r, tabs)
    \/ \E r \in RunIds : TabsFail(r)
    \/ \E r \in RunIds, title \in Titles : MetaReturn(r, title)
    \/ \E r \in RunIds : MetaFail(r)
    \/ \E r \in RunIds, text \in TranscriptResults : TransReturn(r, text)
    \/ \E r \in RunIds : TransFail(r)
    \/ \E r \in RunIds, text \in SummaryTexts : SummaryReturn(r, text)
    \/ \E r \in RunIds : SummaryFail(r)
    \/ Teardown
    \/ \E canAccess \in BOOLEAN : V_Activate(canAccess)
    \/ \E r \in RunIds, tabs \in TabInputs : V_TabsReturn(r, tabs)
    \/ \E r \in RunIds : V_TabsFail(r)
    \/ \E r \in RunIds, title \in Titles : V_MetaReturn(r, title)
    \/ \E r \in RunIds : V_MetaFail(r)
    \/ \E r \in RunIds, text \in TranscriptResults : V_TransReturn(r, text)
    \/ \E r \in RunIds : V_TransFail(r)
    \/ V_SummaryEffect
    \/ \E r \in RunIds, text \in SummaryTexts : V_SummaryReturn(r, text)
    \/ \E r \in RunIds : V_SummaryFail(r)
    \/ \E question \in Questions : AskQuestion(question)
    \/ \E f \in Pending, text \in AnswerTexts : FollowUpAnswer(f, text)
    \/ \E f \in Pending : FollowUpFail(f)

Spec == Init /\ [][Next]_vars

\* One activation that is never superseded or torn down, the host answering
\* with any tab list of up to MaxTabs tabs.
NextSingle ==
    \/ \E canAccess \in BOOLEAN : Len(runs) = 0 /\ Activate(canAccess)
    \/ \E tabs \in TabLists : TabsReturn(1, tabs)
    \/ TabsFail(1)
    \/ \E title \in Titles : MetaReturn(1, title)
    \/ MetaFail(1)
    \/ \E text \in TranscriptResults : TransReturn(1, text)
    \/ TransFail(1)
    \/ \E text \in SummaryTexts : SummaryReturn(1, text)
    \/ SummaryFail(1)
    \/ \E canAccess \in BOOLEAN : V_Activate(canAccess)
    \/ \E tabs \in TabLists : V_TabsReturn(1, tabs)
    \/ V_TabsFail(1)
    \/ \E title \in Titles : V_MetaReturn(1, title)
    \/ V_MetaFail(1)
    \/ \E text \in TranscriptResults : V_TransReturn(1, text)
    \/ V_TransFail(1)
    \/ V_SummaryEffect
    \/ \E text \in SummaryTexts : V_SummaryReturn(1, text)
    \/ V_SummaryFail(1)
    \/ \E question \in Questions : AskQuestion(question)
    \/ \E f \in Pending, text \in AnswerTexts : FollowUpAnswer(f, text)
    \/ \E f \in Pending : FollowUpFail(f)

SpecSingle == Init /\ [][NextSingle]_vars


\* The runs alone, without follow-up questions.
NextRuns ==
    \/ \E canAccess \in BOOLEAN : Activate(canAccess)
    \/ \E r \in RunIds, tabs \in TabInputs : TabsReturn(r, tabs)
    \/ \E r \in RunIds : TabsFail(r)
    \/ \E r \in RunIds, title \in Titles : MetaReturn(r, title)
    \/ \E r \in RunIds : MetaFail(r)
    \/ \E r \in RunIds, text \in TranscriptResults : TransReturn(r, text)
    \/ \E r \in RunIds : TransFail(r)
    \/ \E r \in RunIds, text \in SummaryTexts : SummaryReturn(r, text)
    \/ \E r \in RunIds : SummaryFail(r)
    \/ Teardown
    \/ \E canAccess \in BOOLEAN : V_Activate(canAccess)
    \/ \E r \in RunIds, tabs \in TabInputs : V_TabsReturn(r, tabs)
    \/ \E r \in RunIds : V_TabsFail(r)
    \/ \E r \in RunIds, title \in Titles : V_MetaReturn(r, title)
    \/ \E r \in RunIds : V_MetaFail(r)
    \/ \E r \in RunIds, text \in TranscriptResults : V_TransReturn(r, text)
    \/ \E r \in RunIds : V_TransFail(r)
    \/ V_SummaryEffect
    \/ \E r \in RunIds, text \in SummaryTexts : V_SummaryReturn(r, text)
    \/ \E r \in RunIds : V_SummaryFail(r)

\* The collaborator call run r is waiting for returns or fails.
Completion(r) ==
    \/ \E tabs \in TabInputs : TabsReturn(r, tabs) \/ V_TabsReturn(r, tabs)
    \/ TabsFail(r) \/ V_TabsFail(r)
    \/ \E title \in Titles : MetaReturn(r, title) \/ V_MetaReturn(r, title)
    \/ MetaFail(r) \/ V_MetaFail(r)
    \/ \E text \in TranscriptResults : TransReturn(r, text) \/ V_TransReturn(r, text)
    \/ TransFail(r) \/ V_TransFail(r)
    \/ \E text \in SummaryTexts : SummaryReturn(r, text) \/ V_SummaryReturn(r, text)
    \/ SummaryFail(r) \/ V_SummaryFail(r)

\* Every collaborator call eventually returns or fails, and React runs a
\* pending effect.
SpecLive ==
    /\ Init
    /\ [][NextRuns]_vars
    /\ \A r \in 1..MaxRuns : WF_vars(Completion(r))
    /\ WF_vars(V_SummaryEffect)

\* ------------------------------------------------------------ macro-state
\* The current run: the one whose controller activeRequestRef holds
\* (part_001 has no controller: its only run).
CurrentRun == IF variant = "main" THEN activeRequestRef ELSE Len(runs)

ActivePcs ==
    {"Resolving", "FetchingMetadata", "FetchingTranscript", "TranscriptStored",
     "Summarizing"}

Order == <<"getTabs", "getVideoData", "getVideoTranscript", "useGetSummary">>

IsPrefix(s, t) == Len(s) <= Len(t) /\ SubSeq(t, 1, Len(s)) = s

\* a step that is a continuation of run r
StepOf(r) == runs'[r] # runs[r]

\* ------------------------------------------------------------------ claims

\* C1: once a later run B is the current run and has reached Ready, the
\* pipeline-visible state holds only values produced by B: videoData,
\* transcript and summary all come from B.
C1_OnlyValuesOfReadyRun ==
    \A b \in RunIds :
        (b = CurrentRun /\ runs[b].pc = "Ready") =>
            /\ videoData.run = b
            /\ transcript.run = b
            /\ summary.run = b

\* C2: once a run's token has been aborted, no continuation of that run
\* writes videoData, transcript or summary.
C2_AbortedRunWritesNothing ==
    [][\A r \in RunIds :
          (IsAborted(r) /\ StepOf(r)) =>
              UNCHANGED <<videoData, transcript, summary>>]_vars

\* C3: a superseded run's failure neither shows a notification nor clears
\* the loading flag, hence whenever the current run is in an active state
\* summaryIsLoading is true.
C3_LoadingWhileCurrentRunActive ==
    \A r \in RunIds :
        (r = CurrentRun /\ runs[r].pc \in ActivePcs) => summaryIsLoading

\* C4: on every activation, when the new run issues its first collaborator
\* call every earlier token has been aborted, metadata, transcript and summary
\* are undefined and the loading flag is true.
C4_ResetBeforeFirstCall ==
    [][Len(runs') > Len(runs) =>
          /\ variant = "main" => \A r \in RunIds : aborted'[r]
          /\ videoData' = Undefined
          /\ transcript' = Undefined
          /\ summary' = Undefined
          /\ runs'[Len(runs')].calls # <<>> => summaryIsLoading']_vars

C4_Witness ==
    /\ Len(runs) = 2
    /\ runs[1].pc = "FetchingTranscript"
    /\ aborted[1]
    /\ runs[2].calls = <<"getTabs">>
    /\ videoData = Undefined
    /\ summaryIsLoading

\* C5: at most one run holds an un-aborted token: every controller other
\* than the one activeRequestRef holds is aborted.
C5_OnlyCurrentTokenLive ==
    variant = "main" =>
        /\ Len(aborted) = Len(runs)
        /\ \A r \in RunIds : r # activeRequestRef => aborted[r]

C5_Witness ==
    /\ Len(runs) = 2
    /\ aborted[1]
    /\ activeRequestRef = 2
    /\ ~aborted[2]

\* C6: within one run the collaborators are called in the order tab listing,
\* metadata, transcript, summarization, each at most once and each only when
\* the run has reached its stage; a run that failed at a stage has called
\* nothing after it (a metadata failure: no transcript fetch).
C6_CallsInOrder ==
    \A r \in RunIds :
        LET n == Len(runs[r].calls)
            t == runs[r].toast
            pc == runs[r].pc
        IN
        /\ IsPrefix(runs[r].calls, Order)
        /\ pc = "Resolving" => n = 1
        /\ pc = "FetchingMetadata" => n = 2
        /\ pc \in {"FetchingTranscript", "TranscriptStored", "Empty"} => n = 3
        /\ pc \in {"Summarizing", "Ready", "Uncaught"} => n = 4
        /\ t = ToastExtensionRequired => n = 0
        /\ t \in {ToastOpenYouTube, ToastInvalidURL, ToastUnexpected} => n = 1
        /\ t = ToastVideoData => n = 2
        /\ t = ToastNoSubtitles => n = 3
        /\ t = ToastTranscript => n \in {3, 4}

C6_Witness ==
    \E r \in RunIds :
        /\ runs[r].toast = ToastVideoData
        /\ runs[r].pc = "Failed"
        /\ runs[r].calls = <<"getTabs", "getVideoData">>

\* C7: when the transcript provider yields no transcript for the current
\* run, the run ends in the empty-result state: guidance is shown, the
\* loading flag is false, transcript is undefined and the run never calls
\* the summarization backend.
C7_EmptyResultTerminal ==
    \A r \in RunIds :
        (r = CurrentRun /\ runs[r].pc = "Empty") =>
            /\ runs[r].toast = ToastNoSubtitles
            /\ ~summaryIsLoading
            /\ transcript = Undefined
            /\ runs[r].calls = <<"getTabs", "getVideoData", "getVideoTranscript">>

\* The error a resolve-stage notification stands for.
NoActiveVideoTab == ToastOpenYouTube

InvalidVideoReference == ToastInvalidURL

HasActive(tabs) == \E i \in 1..Len(tabs) : tabs[i].active

\* the tab tabs.find picks lacks the YouTube watch prefix
ActiveLacksPrefix(tabs) ==
    /\ HasActive(tabs)
    /\ ~StartsWith(tabs[FindActive(tabs)].url, WatchPrefix)

\* the continuation after getTabs, run on the tab list tabs
ResolveStep(tabs) == TabsReturn(1, tabs) \/ V_TabsReturn(1, tabs)

\* C8 (as stated): zero active tabs fails with NoActiveVideoTab, an active
\* tab without the watch prefix fails with InvalidVideoReference.
C8_PrefixlessIsInvalidReference ==
    [][\A tabs \in TabLists :
          ResolveStep(tabs) =>
              /\ ~HasActive(tabs) => runs'[1].toast = NoActiveVideoTab
              /\ ActiveLacksPrefix(tabs) => runs'[1].toast = InvalidVideoReference]_vars

\* C8 (amended): zero active tabs, or an active tab without the watch
\* prefix, both fail with NoActiveVideoTab; InvalidVideoReference is the
\* failure of an active watch-prefixed tab whose URL/ID validation fails.
C8_PrefixlessIsNoActiveVideoTab ==
    [][\A tabs \in TabLists :
          ResolveStep(tabs) =>
              /\ (~HasActive(tabs) \/ ActiveLacksPrefix(tabs)) =>
                    /\ runs'[1].toast = NoActiveVideoTab
                    /\ runs'[1].pc = "Failed"
                    /\ ~summaryIsLoading'
              /\ runs'[1].toast = InvalidVideoReference =>
                    /\ HasActive(tabs)
                    /\ StartsWith(tabs[FindActive(tabs)].url, WatchPrefix)]_vars

C8_Witness ==
    /\ Len(runs) = 1
    /\ runs[1].toast = NoActiveVideoTab
    /\ runs[1].pc = "Failed"
    /\ runs[1].calls = <<"getTabs">>
    /\ ~summaryIsLoading

Fetchers == {"getTabs", "getVideoData", "getVideoTranscript"}

Count(r, c) == Cardinality({i \in 1..Len(runs[r].calls) : runs[r].calls[i] = c})

\* C9: a follow-up never invokes tab listing, metadata fetch or transcript
\* fetch: once follow-ups have been asked no run has called one of them
\* twice, and for a single activation each has been called exactly once.
C9_FollowUpsFetchNothing ==
    asked >= 1 =>
        /\ \A r \in RunIds, c \in Fetchers : Count(r, c) <= 1
        /\ Len(runs) = 1 => \A c \in Fetchers : Count(1, c) = 1

C9_Witness ==
    /\ Len(runs) = 1
    /\ asked = 2
    /\ followUps = EmptyBag
    /\ summary.val \in AnswerTexts
    /\ \A c \in Fetchers : Count(1, c) = 1

\* C10: a follow-up is a self-loop: dispatching it and receiving its answer
\* or its error changes nothing but the displayed summary: videoData,
\* transcript, the loading flag, the current token and every run's position
\* stay as they were.
C10_FollowUpFrame ==
    [][followUpState' # followUpState =>
          UNCHANGED <<videoData, transcript, summaryIsLoading,
                      activeRequestRef, aborted, runs>>]_vars

C10_Witness ==
    /\ asked = 1
    /\ followUps = EmptyBag
    /\ ~followUpError
    /\ summary.val \in AnswerTexts
    /\ videoData # Undefined
    /\ transcript # Undefined

\* the continuations of the single run on a delivered result
MetaStep(title) == MetaReturn(1, title) \/ V_MetaReturn(1, title)

TransStep(text) == TransReturn(1, text) \/ V_TransReturn(1, text)

SummaryStep(text) == SummaryReturn(1, text) \/ V_SummaryReturn(1, text)

\* C11: for a single activation that is never superseded or torn down, the
\* metadata returned is stored as videoData and the transcript text returned
\* as transcript, and when the backend returns summary text S the run ends
\* in Ready with summary = S exactly, beside that videoData and that
\* transcript, the loading flag false.
C11_EndToEndSuccess ==
    [][/\ \A title \in Titles :
              MetaStep(title) => videoData' = Val(1, title)
       /\ \A text \in TranscriptTexts :
              TransStep(text) => transcript' = Val(1, text) /\ videoData'.run = 1
       /\ \A text \in SummaryTexts :
              SummaryStep(text) =>
                  /\ runs'[1].pc = "Ready"
                  /\ summary' = Val(1, text)
                  /\ videoData' = videoData /\ videoData.run = 1
                  /\ transcript' = transcript /\ transcript.run = 1
                  /\ ~summaryIsLoading'
       /\ (Len(runs) = 1 /\ runs[1].pc = "Ready") =>
              /\ videoData' = videoData
              /\ transcript' = transcript
              /\ ~summaryIsLoading']_vars

C11_Witness ==
    /\ Len(runs) = 1
    /\ runs[1].pc = "Ready"
    /\ runs[1].calls = Order
    /\ asked = 0
    /\ videoData = Val(1, "Talk")
    /\ transcript = Val(1, "hello world transcript")
    /\ summary = Val(1, "Summary: talk about X.")
    /\ ~summaryIsLoading

\* The stage a run was in when it stopped calling collaborators, by the
\* calls it had made.
StageReached(r) ==
    CASE Len(runs[r].calls) = 0 -> "capability"
      [] Len(runs[r].calls) = 1 -> "resolve"
      [] Len(runs[r].calls) = 2 -> "metadata"
      [] Len(runs[r].calls) = 3 -> "transcript"
      [] OTHER -> "summary"

\* The stage a failure notification names.
StageNamed(toast) ==
    CASE toast = ToastExtensionRequired -> "capability"
      [] toast \in {ToastOpenYouTube, ToastInvalidURL, ToastUnexpected} -> "resolve"
      [] toast = ToastVideoData -> "metadata"
      [] toast \in {ToastNoSubtitles, ToastTranscript} -> "transcript"
      [] OTHER -> "none"

\* C12: every failure of the current run is caught, reported with the stage
\* in which it occurred (a failure of the summarization call as a summary
\* failure, never as a transcript failure), and clears the loading flag.
C12_FailureNamesItsStage ==
    \A r \in RunIds :
        r = CurrentRun =>
            /\ runs[r].pc # "Uncaught"
            /\ runs[r].pc = "Failed" =>
                  /\ StageNamed(runs[r].toast) = StageReached(r)
                  /\ ~summaryIsLoading

\* C13: when the browser-extension capability is unavailable at activation
\* the run fails at once: the failure notification is shown, the loading
\* flag is false, metadata, transcript and summary are undefined, and the
\* run calls no collaborator, then or later.
C13_ExtensionUnavailable ==
    [][/\ \A r \in 1..Len(runs') :
              runs'[r].toast = ToastExtensionRequired =>
                  /\ runs'[r].pc = "Failed"
                  /\ runs'[r].calls = <<>>
       /\ (/\ Len(runs') > Len(runs)
           /\ runs'[Len(runs')].toast = ToastExtensionRequired) =>
              /\ ~summaryIsLoading'
              /\ videoData' = Undefined
              /\ transcript' = Undefined
              /\ summary' = Undefined]_vars

C13_Witness ==
    /\ Len(runs) = 2
    /\ runs[1].pc = "FetchingTranscript"
    /\ runs[2].pc = "Failed"
    /\ runs[2].toast = ToastExtensionRequired
    /\ runs[2].calls = <<>>
    /\ videoData = Undefined
    /\ ~summaryIsLoading

\* C14: a follow-up request is dispatched to the backend only from Ready,
\* that is only once the current run's summary has been produced.
C14_FollowUpOnlyFromReady ==
    [][asked' > asked =>
          /\ CurrentRun # 0
          /\ runs[CurrentRun].pc = "Ready"]_vars

\* the request a dispatching step has put in flight
Dispatched(f) == CopiesIn(f, followUps') > CopiesIn(f, followUps)

\* C15: every follow-up request is issued with the existing
\* ConversationContext: the transcript stored by the run and the summary or
\* answer text displayed when the question is submitted.
C15_FollowUpCarriesContext ==
    [][asked' > asked =>
          \A f \in BagToSet(followUps') :
              Dispatched(f) =>
                  /\ f.transcript = transcript
                  /\ RequestSummary(f) = summary]_vars

\* the states in which a run has ended (Uncaught: failed with the error
\* escaping)
TerminalPcs == {"Ready", "Empty", "Failed", "Uncaught"}

\* C16: if every collaborator call eventually returns or fails, every run
\* that is not superseded or torn down eventually reaches a terminal state,
\* and while the current run is in a terminal state the loading flag is
\* false.
C16_Termination ==
    /\ \A r \in 1..MaxRuns :
          (Len(runs) >= r /\ CurrentRun = r) ~>
              (CurrentRun # r \/ runs[r].pc \in TerminalPcs)
    /\ [](\A r \in RunIds :
              (CurrentRun = r /\ runs[r].pc \in TerminalPcs) => ~summaryIsLoading)

C16_Witness ==
    /\ Len(runs) = 2
    /\ aborted[1]
    /\ runs[1].pc = "Summarizing"
    /\ CurrentRun = 2
    /\ runs[2].pc = "Empty"
    /\ ~summaryIsLoading

\* C17: once a run's token has been aborted the run starts no further
\* collaborator call.
C17_AbortedRunCallsNothing ==
    [][\A r \in RunIds :
          IsAborted(r) => runs'[r].calls = runs[r].calls]_vars

C17_Witness ==
    /\ Len(runs) = 2
    /\ aborted[1]
    /\ runs[1].pc = "Dropped"
    /\ runs[1].calls = <<"getTabs", "getVideoData">>
    /\ videoData.run = 1

\* What the two variants are compared on: the four state cells, the calls
\* the run has made, and whether the run has ended.
Obs ==
    [videoData |-> videoData, transcript |-> transcript, summary |-> summary,
     summaryIsLoading |-> summaryIsLoading,
     calls |-> IF Len(runs) = 0 THEN <<>> ELSE runs[1].calls,
     ended |-> Len(runs) = 1 /\ runs[1].pc \in TerminalPcs]

Stopped(o) == [o EXCEPT !.summaryIsLoading = FALSE, !.ended = TRUE]

Called(o, name) == [o EXCEPT !.calls = Append(@, name)]

ActivateStep(canAccess) ==
    (Len(runs) = 0 /\ Activate(canAccess)) \/ V_Activate(canAccess)

\* the transcript text is stored and the summarization request started: one
\* continuation in summarizeCurrentTab.tsx, the [transcript] effect that
\* follows setTranscript in part_001
SummarizeStarts(text) ==
    TransReturn(1, text) \/ (V_SummaryEffect /\ transcript = Val(1, text))

\* C18: for a single activation that is not superseded, and before any
\* follow-up, each collaborator outcome (capability missing or present, the
\* tab list, metadata returned or failed, transcript text, empty or failed,
\* summary returned) takes both variants from the same values of videoData,
\* transcript, summary, loading flag and calls made to the same values, so
\* both make the same calls and end with the same values.
C18_VariantsAgree ==
    [][asked' = 0 =>
          /\ \A canAccess \in BOOLEAN :
                ActivateStep(canAccess) =>
                    Obs' = [videoData |-> Undefined, transcript |-> Undefined,
                            summary |-> Undefined,
                            summaryIsLoading |-> canAccess,
                            calls |-> IF canAccess THEN <<"getTabs">> ELSE <<>>,
                            ended |-> ~canAccess]
          /\ \A tabs \in TabLists :
                ResolveStep(tabs) =>
                    Obs' = IF Resolve(tabs).toast = NoToast
                           THEN Called(Obs, "getVideoData")
                           ELSE Stopped(Obs)
          /\ (TabsFail(1) \/ V_TabsFail(1)) => Obs' = Stopped(Obs)
          /\ \A title \in Titles :
                MetaStep(title) =>
                    Obs' = Called([Obs EXCEPT !.videoData = Val(1, title)],
                                  "getVideoTranscript")
          /\ (MetaFail(1) \/ V_MetaFail(1)) => Obs' = Stopped(Obs)
          /\ TransStep("") => Obs' = Stopped(Obs)
          /\ (TransFail(1) \/ V_TransFail(1)) => Obs' = Stopped(Obs)
          /\ \A text \in TranscriptTexts :
                /\ V_TransReturn(1, text) =>
                       Obs' = [Obs EXCEPT !.transcript = Val(1, text)]
                /\ SummarizeStarts(text) =>
                       Obs' = Called([Obs EXCEPT !.transcript = Val(1, text),
                                                 !.summaryIsLoading = TRUE],
                                     "useGetSummary")
          /\ \A text \in SummaryTexts :
                SummaryStep(text) =>
                    Obs' = Stopped([Obs EXCEPT !.summary = Val(1, text)])]_vars

C18_Witness ==
    /\ variant = "part_001"
    /\ Len(runs) = 1
    /\ runs[1].pc = "Ready"
    /\ runs[1].calls = Order
    /\ asked = 0
    /\ videoData.run = 1
    /\ transcript.run = 1
    /\ summary.run = 1
    /\ ~summaryIsLoading

IsActive(tab) == tab.active

ActiveOnly(tabs) == SelectSeq(tabs, IsActive)

\* tab i is the first tab of the list whose active flag is true
FirstActive(tabs, i) ==
    /\ tabs[i].active
    /\ \A j \in 1..(i - 1) : ~tabs[j].active

\* C19: tab selection uses the first tab in list order whose active flag is
\* true: the resolve step does on a tab list what it does on that tab alone,
\* so it fails when that tab is not a YouTube watch URL even if a later
\* active tab is one, and tabs with active = false never influence it.
C19_FirstActiveTabDecides ==
    [][\A tabs \in TabLists :
          ResolveStep(tabs) =>
              /\ ResolveStep(ActiveOnly(tabs))
              /\ \A i \in 1..Len(tabs) :
                    FirstActive(tabs, i) =>
                        /\ ResolveStep(<<tabs[i]>>)
                        /\ ~StartsWith(tabs[i].url, WatchPrefix) =>
                              /\ runs'[1].pc = "Failed"
                              /\ runs'[1].toast = ToastOpenYouTube
                        /\ runs'[1].video \in {NoVideo, tabs[i].url}]_vars

C19_Witness ==
    /\ Len(runs) = 1
    /\ runs[1].pc = "FetchingMetadata"
    /\ runs[1].video = WatchURL
    /\ runs[1].calls = <<"getTabs", "getVideoData">>
    /\ asked = 0

=============================================================================
